---- MODULE Spec2Model ----
(***************************************************************************)
(* The deep-research pipeline of src/deep_research/pipeline.py as a state  *)
(* machine: the LangGraph graph built by setup_graph, its five nodes, the  *)
(* conditional edge route_research, the state record SummaryState with its *)
(* reducers, and the text helpers the nodes call.                          *)
(*                                                                         *)
(* A text is a sequence of atoms.  An atom is one character of the text    *)
(* ("<", "/", "t", ...), or an opaque run of characters that holds none of *)
(* the characters the helpers look for (a JSON document, a sentence).      *)
(***************************************************************************)
EXTENDS Integers, Sequences, FiniteSets, TLC

VARIABLES
    state,      \* the SummaryState of the run
    node,       \* the graph node that runs next
    notify,     \* TRUE when run_deep_research was given a notifier
    events,     \* the calls made to the notifier, in order
    outcome,    \* "running", "returned", "raised" or "hung"
    error,      \* the exception that reached the caller, "" when none
    report,     \* the value run_deep_research returned
    nodeLog,    \* the nodes that started executing, in order
    searchLog,  \* the answers of the search calls, in order
    modelLog,   \* the calls of deep_seek_model.ainvoke: prompt and answer
    irregular,  \* stage executions so far that returned, but not as usual
    tx,         \* a text on its way through the text normalizer
    runs,       \* the runs of run_deep_research in flight together
    shared,     \* the fields of the research state kept at module level
    app,        \* the chat session of app.py and what its last handler did
    thinking    \* the thinking cache of dynamic_thinking.py and its callers

vars == <<state, node, notify, events, outcome, error, report, nodeLog,
          searchLog, modelLog, irregular, tx, runs, shared, app, thinking>>

----------------------------------------------------------------------------
(* Bounds of the model *)

\* a text given to the text normalizer is made of 0..MaxPieces pieces
MaxPieces == 4

\* iterations of the loop of _strip_thinking_tokens that are followed
MaxStripIters == 3

\* a search answers with 0..MaxImagesPerSearch image URLs
MaxImagesPerSearch == 1

\* At most MaxIrregular stage executions of a run return normally on
\* anything but the usual course (the model's usual answer, every notifier
\* call returning).  Executions that end the run are not counted.
MaxIrregular == 1

----------------------------------------------------------------------------
(* Python string primitives on texts *)

Min(a, b) == IF a < b THEN a ELSE b

\* text[a:b] for 0 <= a, 0 <= b
PySlice(text, a, b) == SubSeq(text, a + 1, Min(b, Len(text)))

\* text[a:]
PyTail(text, a) == SubSeq(text, a + 1, Len(text))

\* text.find(pat): the least 0-based index where pat occurs, -1 when absent
Find(text, pat) ==
    LET hits == { i \in 0..(Len(text) - Len(pat)) :
                      SubSeq(text, i + 1, i + Len(pat)) = pat }
    IN IF hits = {} THEN -1
       ELSE CHOOSE i \in hits : \A j \in hits : i <= j

\* pat in text
Contains(text, pat) == Find(text, pat) # -1

Whitespace == {" ", "\n"}

RECURSIVE LStrip(_)
LStrip(text) ==
    IF text # <<>> /\ Head(text) \in Whitespace THEN LStrip(Tail(text)) ELSE text

RECURSIVE RStrip(_)
RStrip(text) ==
    IF text # <<>> /\ text[Len(text)] \in Whitespace
    THEN RStrip(SubSeq(text, 1, Len(text) - 1)) ELSE text

\* text.strip()
PyStrip(text) == LStrip(RStrip(text))

----------------------------------------------------------------------------
(* Text normalizer *)

StartMarker == <<"<", "t", "h", "i", "n", "k", ">">>
EndMarker == <<"<", "/", "t", "h", "i", "n", "k", ">">>

\* the loop condition of _strip_thinking_tokens
StripCond(text) == Contains(text, StartMarker) /\ Contains(text, EndMarker)

\* one iteration of the loop of _strip_thinking_tokens on r = [thoughts, text]
StripBody(r) ==
    LET s == Find(r.text, StartMarker)
        e == Find(r.text, EndMarker)
    IN [thoughts |-> r.thoughts
                       \o PyStrip(PySlice(r.text, s + Len(StartMarker), e))
                       \o <<"\n", "\n">>,
        text |-> PySlice(r.text, 0, s) \o PyTail(r.text, e + Len(EndMarker))]

\* The loop of _strip_thinking_tokens.  An iteration that does not shorten
\* the text found the end marker before the start marker; both markers then
\* stay where they are, so the condition never becomes false: the loop spins
\* on an unchanged text ("hang"), or the text grows at every iteration until
\* the interpreter raises MemoryError ("memory").
RECURSIVE StripLoop(_)
StripLoop(r) ==
    IF ~StripCond(r.text)
    THEN [status |-> "ok", thoughts |-> PyStrip(r.thoughts), text |-> PyStrip(r.text)]
    ELSE LET n == StripBody(r)
         IN IF Len(n.text) < Len(r.text) THEN StripLoop(n)
            ELSE [status |-> IF n.text = r.text THEN "hang" ELSE "memory",
                  thoughts |-> <<>>, text |-> <<>>]

\* _strip_thinking_tokens(text): [status, thoughts, text]
StripThinkingTokens(text) == StripLoop([thoughts |-> <<>>, text |-> text])

\* the backtick character is written "BT"
Backtick == <<"BT">>
Fence == <<"BT", "BT", "BT">>

\* _CODE_BLOCK_RE.split(text): the parts of text, the odd ones (1-based)
\* outside code, the even ones the code spans (fenced or single backtick)
RECURSIVE CodeSplit(_)
CodeSplit(text) ==
    LET i == Find(text, Backtick)
        j == IF i = -1 THEN -1 ELSE Find(PyTail(text, i + 1), Backtick)
    IN IF j = -1 THEN <<text>>
       ELSE LET close3 == IF PySlice(text, i, i + 3) = Fence
                          THEN Find(PyTail(text, i + 3), Fence) ELSE -1
                stop == IF close3 # -1 THEN i + 3 + close3 + 3 ELSE i + 1 + j + 1
            IN <<PySlice(text, 0, i), PySlice(text, i, stop)>>
                 \o CodeSplit(PyTail(text, stop))

\* re.sub(open (.*?) close, repl \1 repl, seg, flags=re.DOTALL)
RECURSIVE SubDelims(_, _, _, _)
SubDelims(seg, open, close, repl) ==
    LET s == Find(seg, open)
        rest == PyTail(seg, s + Len(open))
        e == IF s = -1 THEN -1 ELSE Find(rest, close)
    IN IF e = -1 THEN seg
       ELSE PySlice(seg, 0, s) \o repl \o PySlice(rest, 0, e) \o repl
              \o SubDelims(PyTail(rest, e + Len(close)), open, close, repl)

RECURSIVE JoinParts(_, _)
JoinParts(parts, i) ==
    IF i > Len(parts) THEN <<>>
    ELSE (IF i % 2 = 1
          THEN SubDelims(SubDelims(parts[i], <<"\\", "[">>, <<"\\", "]">>, <<"$", "$">>),
                         <<"\\", "(">>, <<"\\", ")">>, <<"$">>)
          ELSE parts[i])
         \o JoinParts(parts, i + 1)

\* _normalize_latex(text)
NormalizeLatex(text) == JoinParts(CodeSplit(text), 1)

----------------------------------------------------------------------------
(* json.loads on the texts of the model *)

\* None, and the strings a JSON document of the model holds
None == <<"None">>
Truthy(v) == v # None /\ v # <<>>

\* The JSON documents the stub model can answer with, each one atom of text.
JsonDocs ==
    [doc \in {"{query,rationale}", "{rationale}", "{follow_up_query,knowledge_gap}",
              "{knowledge_gap}", "[]"} |->
        CASE doc = "{query,rationale}" ->
                 [isObject |-> TRUE, keys |-> {"query", "rationale"},
                  query |-> <<"first query">>, rationale |-> <<"because">>,
                  follow_up_query |-> None, knowledge_gap |-> None]
          [] doc = "{rationale}" ->
                 [isObject |-> TRUE, keys |-> {"rationale"},
                  query |-> None, rationale |-> <<"because">>,
                  follow_up_query |-> None, knowledge_gap |-> None]
          [] doc = "{follow_up_query,knowledge_gap}" ->
                 [isObject |-> TRUE, keys |-> {"follow_up_query", "knowledge_gap"},
                  query |-> None, rationale |-> None,
                  follow_up_query |-> <<"follow-up query">>,
                  knowledge_gap |-> <<"a gap">>]
          [] doc = "{knowledge_gap}" ->
                 [isObject |-> TRUE, keys |-> {"knowledge_gap"},
                  query |-> None, rationale |-> None,
                  follow_up_query |-> None, knowledge_gap |-> <<"a gap">>]
          [] OTHER ->
                 [isObject |-> FALSE, keys |-> {},
                  query |-> None, rationale |-> None,
                  follow_up_query |-> None, knowledge_gap |-> None]]

\* json.loads(text): a text parses when it is exactly one JSON document
JsonLoads(text) ==
    IF Len(text) = 1 /\ text[1] \in DOMAIN JsonDocs
    THEN [ok |-> TRUE, value |-> JsonDocs[text[1]]]
    ELSE [ok |-> FALSE, value |-> JsonDocs["[]"]]

\* content.get(key, default) on a parsed object
JsonGet(value, key, default) ==
    IF key \in value.keys THEN value[key] ELSE default

----------------------------------------------------------------------------
(* Source formatter: .formatting is not among the sources; modelled from   *)
(* the specification, section 4.2                                          *)

\* Dedup keeping every result
DedupKeepAll(results, seen) == results

\* the results of a response, the first of every URL only, in order
RECURSIVE Dedup(_, _)
Dedup(results, seen) ==
    IF results = <<>> THEN <<>>
    ELSE IF Head(results).url \in seen THEN Dedup(Tail(results), seen)
    ELSE <<Head(results)>> \o Dedup(Tail(results), seen \cup {Head(results).url})

RECURSIVE ContextEntries(_)
ContextEntries(results) ==
    IF results = <<>> THEN <<>>
    ELSE <<"Source: ", Head(results).title, "\nURL: ", Head(results).url,
           "\nContent: ", Head(results).content, "\n">>
           \o ContextEntries(Tail(results))

\* deduplicate_and_format_sources(res, max_tokens_per_source): the context block
DeduplicateAndFormatSources(res) == ContextEntries(Dedup(res.results, {}))

RECURSIVE CitationLines(_)
CitationLines(results) ==
    IF results = <<>> THEN <<>>
    ELSE <<"* [", Head(results).title, "](", Head(results).url, ")">>
           \o (IF Tail(results) = <<>> THEN <<>> ELSE <<"\n">>)
           \o CitationLines(Tail(results))

\* format_sources(res): the citation block
FormatSources(res) == CitationLines(Dedup(res.results, {}))

----------------------------------------------------------------------------
(* Research state *)

\* SummaryState(research_topic=topic, images=[])
NewState(topic) ==
    [research_topic |-> topic, search_query |-> <<>>, rationale |-> <<>>,
     web_research_results |-> <<>>, sources_gathered |-> <<>>, images |-> <<>>,
     research_loop_count |-> 0, running_summary |-> <<>>, knowledge_gap |-> <<>>]

\* ReducerFields with the annotation of sources_gathered forgotten
ReducerFieldsNoSources == {"web_research_results", "images"}

\* the fields of SummaryState annotated with operator.add
ReducerFields == {"web_research_results", "sources_gathered", "images"}

\* How the graph merges the mapping a node returns into the state: a field
\* with a reducer becomes reducer(old, returned), any other field is replaced.
ApplyUpdate(st, upd) ==
    [f \in DOMAIN st |->
        IF f \notin DOMAIN upd THEN st[f]
        ELSE IF f \in ReducerFields THEN st[f] \o upd[f]
        ELSE upd[f]]

----------------------------------------------------------------------------
(* Pipeline stages.  Each operator gives what one execution of the node    *)
(* does: [status, err, ev, upd], the events it sent to the notifier and    *)
(* the mapping it returned (status "ok"), or the exception that left it.   *)
(* bad is the set of notifier calls of this execution (counted from 1)     *)
(* that raise.                                                             *)

\* if notify: await notify(name, payload)
Emit(hasNotify, name, payload, raises) ==
    IF hasNotify THEN <<[name |-> name, payload |-> payload, raised |-> raises]>>
    ELSE <<>>

Ok(ev, upd) == [status |-> "ok", err |-> "", ev |-> ev, upd |-> upd]
Raise(err, ev) == [status |-> "raised", err |-> err, ev |-> ev, upd |-> <<>>]
Hang(ev) == [status |-> "hung", err |-> "", ev |-> ev, upd |-> <<>>]

\* what a stage does when _strip_thinking_tokens does not return normally
StripFailure(s) == IF s.status = "hang" THEN Hang(<<>>) ELSE Raise("MemoryError", <<>>)

\* Fallback falling back on the query of the round before
FallbackStale(st) == st.search_query

\* f"Tell me more about {state.research_topic}"
Fallback(st) == <<"Tell me more about ">> \o st.research_topic

FixedGap == <<"Unable to identify specific knowledge gap">>

\* QueryParseError caught, the stage going on with an empty query
QueryParseErrorCaught(err, ev) == Ok(ev, [search_query |-> <<>>, rationale |-> <<>>])

\* json.loads(text), query["query"] or query["rationale"] raises in
\* generate_query: nothing catches it
QueryParseError(err, ev) == Raise(err, ev)

\* generate_query(state, notify)
GenerateQueryResult(st, hasNotify, resp, bad) ==
    IF ~resp.ok THEN Raise("ModelError", <<>>)
    ELSE
    LET s == StripThinkingTokens(resp.content)
        text == NormalizeLatex(s.text)
        ev1 == Emit(hasNotify, "thinking", [thoughts |-> s.thoughts], 1 \in bad)
        j == JsonLoads(text)
        rq == j.value.query
        rationale == j.value.rationale
        ev2 == Emit(hasNotify, "generate_query",
                    [query |-> rq, rationale |-> rationale, thoughts |-> s.thoughts],
                    2 \in bad)
    IN  IF s.status # "ok" THEN StripFailure(s)
        ELSE IF hasNotify /\ 1 \in bad THEN Raise("NotifierError", ev1)
        ELSE IF ~j.ok THEN QueryParseError("JSONDecodeError", ev1)
        ELSE IF ~j.value.isObject THEN QueryParseError("TypeError", ev1)
        ELSE IF ~({"query", "rationale"} \subseteq j.value.keys)
             THEN QueryParseError("KeyError", ev1)
        ELSE IF hasNotify /\ 2 \in bad THEN Raise("NotifierError", ev1 \o ev2)
        ELSE Ok(ev1 \o ev2, [search_query |-> rq, rationale |-> rationale])

\* SearchFailed caught, the round completing with nothing found
SearchFailedCaught(st) ==
    Ok(<<>>, [sources_gathered |-> << <<>> >>,
              research_loop_count |-> st.research_loop_count + 1,
              web_research_results |-> << <<>> >>,
              images |-> st.images])

\* await tavily_client.search(...) raises in web_research: nothing catches it
SearchFailed(st) == Raise("SearchError", <<>>)

\* WebResearchResult appending the context block twice
WebResearchResultTwoBlocks(st, hasNotify, res, bad) ==
    IF ~res.ok THEN SearchFailed(st)
    ELSE
    LET search_str == DeduplicateAndFormatSources(res)
        ev1 == Emit(hasNotify, "web_research",
                    [sources |-> res.results, images |-> res.images], 1 \in bad)
    IN  IF hasNotify /\ 1 \in bad THEN Raise("NotifierError", ev1)
        ELSE Ok(ev1, [sources_gathered |-> <<FormatSources(res)>>,
                      research_loop_count |-> st.research_loop_count + 1,
                      web_research_results |-> <<search_str, search_str>>,
                      images |-> st.images \o res.images])

\* web_research(state, notify)
WebResearchResult(st, hasNotify, res, bad) ==
    IF ~res.ok THEN SearchFailed(st)
    ELSE
    LET images == res.images
        search_str == DeduplicateAndFormatSources(res)
        ev1 == Emit(hasNotify, "web_research",
                    [sources |-> res.results, images |-> images], 1 \in bad)
    IN  IF hasNotify /\ 1 \in bad THEN Raise("NotifierError", ev1)
        ELSE Ok(ev1, [sources_gathered |-> <<FormatSources(res)>>,
                      research_loop_count |-> st.research_loop_count + 1,
                      web_research_results |-> <<search_str>>,
                      images |-> st.images \o images])

\* SummarizePrompt feeding the context block of the first round
SummarizePromptFirstContext(st) ==
    LET existing == st.running_summary
        new_ctx == st.web_research_results[1]
    IN [path |-> IF existing # <<>> THEN "update" ELSE "create",
        existing |-> existing, context |-> new_ctx, topic |-> st.research_topic]

\* the human message summarize_sources builds
SummarizePrompt(st) ==
    LET existing == st.running_summary
        new_ctx == st.web_research_results[Len(st.web_research_results)]
    IN IF existing # <<>>
       THEN [path |-> "update", existing |-> existing, context |-> new_ctx,
             topic |-> st.research_topic]
       ELSE [path |-> "create", existing |-> <<>>, context |-> new_ctx,
             topic |-> st.research_topic]

\* SummarizeSourcesResult sending summarize before thinking
SummarizeSourcesResultSummarizeFirst(st, hasNotify, resp, bad) ==
    IF ~resp.ok THEN Raise("ModelError", <<>>)
    ELSE
    LET s == StripThinkingTokens(resp.content)
        text == NormalizeLatex(s.text)
        ev1 == Emit(hasNotify, "summarize", [summary |-> text], 1 \in bad)
        ev2 == Emit(hasNotify, "thinking", [thoughts |-> s.thoughts], 2 \in bad)
    IN  IF s.status # "ok" THEN StripFailure(s)
        ELSE IF hasNotify /\ 1 \in bad THEN Raise("NotifierError", ev1)
        ELSE IF hasNotify /\ 2 \in bad THEN Raise("NotifierError", ev1 \o ev2)
        ELSE Ok(ev1 \o ev2, [running_summary |-> text])

\* summarize_sources(state, notify)
SummarizeSourcesResult(st, hasNotify, resp, bad) ==
    IF ~resp.ok THEN Raise("ModelError", <<>>)
    ELSE
    LET s == StripThinkingTokens(resp.content)
        text == NormalizeLatex(s.text)
        ev1 == Emit(hasNotify, "thinking", [thoughts |-> s.thoughts], 1 \in bad)
        ev2 == Emit(hasNotify, "summarize", [summary |-> text], 2 \in bad)
    IN  IF s.status # "ok" THEN StripFailure(s)
        ELSE IF hasNotify /\ 1 \in bad THEN Raise("NotifierError", ev1)
        ELSE IF hasNotify /\ 2 \in bad THEN Raise("NotifierError", ev1 \o ev2)
        ELSE Ok(ev1 \o ev2, [running_summary |-> text])

\* reflect_on_summary(state, notify)
ReflectOnSummaryResult(st, hasNotify, resp, bad) ==
    IF ~resp.ok THEN Raise("ModelError", <<>>)
    ELSE
    LET s == StripThinkingTokens(resp.content)
        text == NormalizeLatex(s.text)
        ev1 == Emit(hasNotify, "thinking", [thoughts |-> s.thoughts], 1 \in bad)
        j == JsonLoads(text)
        query == JsonGet(j.value, "follow_up_query", None)
        gap == JsonGet(j.value, "knowledge_gap", <<>>)
        ev2 == Emit(hasNotify, "reflection",
                    [query |-> IF Truthy(query) THEN query ELSE <<>>,
                     knowledge_gap |-> gap], 2 \in bad)
        \* the try block runs to its return
        tried == j.ok /\ j.value.isObject /\ ~(hasNotify /\ 2 \in bad)
        \* the events of the try block before the except clause took over
        evTry == IF j.ok /\ j.value.isObject THEN ev2 ELSE <<>>
        fallback == Fallback(st)
        ev3 == Emit(hasNotify, "reflection",
                    [query |-> fallback, knowledge_gap |-> FixedGap], 3 \in bad)
    IN  IF s.status # "ok" THEN StripFailure(s)
        ELSE IF hasNotify /\ 1 \in bad THEN Raise("NotifierError", ev1)
        ELSE IF tried
             THEN Ok(ev1 \o ev2,
                     [search_query |-> IF Truthy(query) THEN query ELSE Fallback(st),
                      knowledge_gap |-> gap])
        ELSE IF hasNotify /\ 3 \in bad THEN Raise("NotifierError", ev1 \o evTry \o ev3)
        ELSE Ok(ev1 \o evTry \o ev3, [search_query |-> fallback])

\* RouteDecision comparing with < instead of <=
RouteDecisionStrict(st) ==
    IF st.research_loop_count < 3 THEN "web_research" ELSE "finalize_summary"

\* RouteDecision naming the wrong node to continue with
RouteDecisionToSummarize(st) ==
    IF st.research_loop_count <= 3 THEN "summarize_sources" ELSE "finalize_summary"

\* the node route_research names
RouteDecision(st) ==
    IF st.research_loop_count <= 3 THEN "web_research" ELSE "finalize_summary"

\* RouteResearchResult reporting the number of the coming round
RouteResearchResultNextLoop(st, hasNotify, bad) ==
    LET ev1 == Emit(hasNotify, "routing",
                    [decision |-> IF RouteDecision(st) = "web_research"
                                  THEN "continue" ELSE "finalize",
                     loop_count |-> st.research_loop_count + 1], 1 \in bad)
    IN  IF hasNotify /\ 1 \in bad THEN Raise("NotifierError", ev1)
        ELSE Ok(ev1, <<>>)

\* route_research(state)
RouteResearchResult(st, hasNotify, bad) ==
    LET ev1 == Emit(hasNotify, "routing",
                    [decision |-> IF RouteDecision(st) = "web_research"
                                  THEN "continue" ELSE "finalize",
                     loop_count |-> st.research_loop_count], 1 \in bad)
    IN  IF hasNotify /\ 1 \in bad THEN Raise("NotifierError", ev1)
        ELSE Ok(ev1, <<>>)

RECURSIVE SourceLines(_)
SourceLines(srcs) ==
    IF srcs = <<>> THEN <<>> ELSE Head(srcs) \o <<"\n">> \o SourceLines(Tail(srcs))

\* FinalReport listing the first citation block only
FinalReportFirstSource(st) ==
    <<"## Summary\n">> \o st.running_summary \o <<"\n\n### Sources:\n">>
        \o SourceLines(SubSeq(st.sources_gathered, 1, 1))

\* the report finalize_summary assembles
FinalReport(st) ==
    <<"## Summary\n">> \o st.running_summary \o <<"\n\n### Sources:\n">>
        \o SourceLines(st.sources_gathered)

\* finalize_summary(state, notify)
FinalizeSummaryResult(st, hasNotify, bad) ==
    LET final == FinalReport(st)
        ev1 == Emit(hasNotify, "finalize",
                    [summary |-> final, images |-> PySlice(st.images, 0, 2)], 1 \in bad)
    IN  IF hasNotify /\ 1 \in bad THEN Raise("NotifierError", ev1)
        ELSE Ok(ev1, [running_summary |-> final])

----------------------------------------------------------------------------
(* The collaborators: what the model, the search and the notifier answer   *)

Topics == {<<"remote work">>}

Think(inner) == StartMarker \o inner \o EndMarker

Answer(content) == [ok |-> TRUE, content |-> content]
Failure == [ok |-> FALSE, content |-> <<>>]

\* the usual answers of the model to the three prompts
UsualQuery == Answer(Think(<<"plan">>) \o <<"\n", "{query,rationale}">>)
UsualSummary == Answer(Think(<<" weigh ">>) \o <<"summary ", "\\", "[", "x", "\\", "]">>)
UsualReflection == Answer(Think(<<"gaps">>) \o <<"{follow_up_query,knowledge_gap}">>)

\* answers of the model to the query-writer prompt
GenResponses ==
    { UsualQuery,
      Answer(<<"no json here">>),
      Answer(<<"{rationale}">>),
      Answer(<<"[]">>),
      Answer(EndMarker \o StartMarker \o <<"{query,rationale}">>),
      Answer(EndMarker \o <<"x">> \o StartMarker \o <<"{query,rationale}">>),
      Failure }

\* answers of the model to the summarizer prompt
SumResponses ==
    { UsualSummary,
      Answer(Think(<<"nothing">>)),
      Answer(<<"a", "<", "/", "t", "h", "i", "n", "k", ">", "<", "t", "h", "i", "n", "k", ">">>),
      Failure }

\* answers of the model to the reflection prompt
ReflResponses ==
    { UsualReflection,
      Answer(<<"{knowledge_gap}">>),
      Answer(<<"not structured">>),
      Answer(<<"[]">>),
      Answer(EndMarker \o StartMarker),
      Failure }

\* number of image URLs the search has disclosed so far
RECURSIVE ImagesDisclosed(_)
ImagesDisclosed(log) ==
    IF log = <<>> THEN 0 ELSE Len(Head(log).images) + ImagesDisclosed(Tail(log))

ResultA == [title |-> "Title A", url |-> "a", content |-> "content A"]
ResultB == [title |-> "Title B", url |-> "b", content |-> "content B"]
ResultA2 == [title |-> "Title A again", url |-> "a", content |-> "content A again"]

\* Answers of the search: k image URLs never disclosed before (URL n is the
\* n-th one disclosed), and a result list
SearchResponses(log) ==
    { [ok |-> TRUE,
       results |-> CASE k = 0 -> <<>> [] k = 1 -> <<ResultA, ResultB, ResultA2>>
                     [] OTHER -> <<ResultB, ResultA>>,
       images |-> [i \in 1..k |-> ImagesDisclosed(log) + i]]
        : k \in 0..MaxImagesPerSearch }
    \cup { [ok |-> FALSE, results |-> <<>>, images |-> <<>>] }

\* the notifier calls of one stage execution that raise
BadCalls(n) == IF notify THEN SUBSET (1..n) ELSE {{}}

\* no text is on its way through the normalizer
NoText == [pc |-> "idle", input |-> <<>>, thoughts |-> <<>>, text |-> <<>>,
           iters |-> 0, pass |-> 0, first |-> <<>>]

----------------------------------------------------------------------------
(* The graph of setup_graph, driven by run_deep_research *)

Init ==
    /\ \E topic \in Topics : state = NewState(topic)
    /\ node = "generate_query"
    /\ notify \in BOOLEAN
    /\ events = <<>>
    /\ outcome = "running"
    /\ error = ""
    /\ report = <<>>
    /\ nodeLog = <<>>
    /\ searchLog = <<>>
    /\ modelLog = <<>>
    /\ irregular = 0
    /\ tx = NoText
    /\ runs = <<>>
    /\ shared = <<>>
    /\ app = <<>>
    /\ thinking = <<>>

\* A node ran with result r, where usual is its result on the usual course;
\* next is the node its outgoing edge names.  An exception leaves
\* graph.ainvoke and run_deep_research unchanged.
Advance(name, r, usual, next) ==
    /\ r.status = "ok" /\ r # usual => irregular < MaxIrregular
    /\ irregular' = IF r.status = "ok" /\ r # usual THEN irregular + 1 ELSE irregular
    /\ nodeLog' = Append(nodeLog, name)
    /\ events' = events \o r.ev
    /\ UNCHANGED <<notify, report, tx, runs, shared, app, thinking>>
    /\ IF r.status = "ok"
       THEN /\ state' = ApplyUpdate(state, r.upd)
            /\ node' = next
            /\ UNCHANGED <<outcome, error>>
       ELSE /\ outcome' = r.status
            /\ error' = r.err
            /\ UNCHANGED <<state, node>>

GenerateQuery(resp, bad) ==
    /\ outcome = "running" /\ node = "generate_query"
    /\ modelLog' = Append(modelLog, [node |-> "generate_query", answer |-> resp,
                                     prompt |-> [topic |-> state.research_topic]])
    /\ Advance("generate_query", GenerateQueryResult(state, notify, resp, bad),
               GenerateQueryResult(state, notify, UsualQuery, {}), "web_research")
    /\ UNCHANGED searchLog

WebResearch(res, bad) ==
    /\ outcome = "running" /\ node = "web_research"
    /\ searchLog' = Append(searchLog, [query |-> state.search_query, ok |-> res.ok,
                                       results |-> res.results,
                                       images |-> res.images])
    /\ Advance("web_research", WebResearchResult(state, notify, res, bad),
               WebResearchResult(state, notify, res, {}), "summarize_sources")
    /\ UNCHANGED modelLog

SummarizeSources(resp, bad) ==
    /\ outcome = "running" /\ node = "summarize_sources"
    /\ modelLog' = Append(modelLog, [node |-> "summarize_sources", answer |-> resp,
                                     prompt |-> SummarizePrompt(state)])
    /\ Advance("summarize_sources", SummarizeSourcesResult(state, notify, resp, bad),
               SummarizeSourcesResult(state, notify, UsualSummary, {}),
               "reflect_on_summary")
    /\ UNCHANGED searchLog

ReflectOnSummary(resp, bad) ==
    /\ outcome = "running" /\ node = "reflect_on_summary"
    /\ modelLog' = Append(modelLog, [node |-> "reflect_on_summary", answer |-> resp,
                                     prompt |-> [summary |-> state.running_summary,
                                                 topic |-> state.research_topic]])
    /\ Advance("reflect_on_summary", ReflectOnSummaryResult(state, notify, resp, bad),
               ReflectOnSummaryResult(state, notify, UsualReflection, {}),
               "route_research")
    /\ UNCHANGED searchLog

RouteResearch(bad) ==
    /\ outcome = "running" /\ node = "route_research"
    /\ Advance("route_research", RouteResearchResult(state, notify, bad),
               RouteResearchResult(state, notify, {}), RouteDecision(state))
    /\ UNCHANGED <<searchLog, modelLog>>

\* fin_node, the edge to END, and the return of run_deep_research
FinalizeSummary(bad) ==
    /\ outcome = "running" /\ node = "finalize_summary"
    /\ LET r == FinalizeSummaryResult(state, notify, bad)
       IN /\ nodeLog' = Append(nodeLog, "finalize_summary")
          /\ events' = events \o r.ev
          /\ IF r.status = "ok"
             THEN /\ state' = ApplyUpdate(state, r.upd)
                  /\ node' = "END"
                  /\ outcome' = "returned"
                  /\ report' = state'.running_summary
                  /\ UNCHANGED error
             ELSE /\ outcome' = r.status
                  /\ error' = r.err
                  /\ UNCHANGED <<state, node, report>>
    /\ UNCHANGED <<notify, searchLog, modelLog, irregular, tx, runs, shared,
                   app, thinking>>

Next ==
    \/ \E resp \in GenResponses, bad \in BadCalls(2) : GenerateQuery(resp, bad)
    \/ \E res \in SearchResponses(searchLog), bad \in BadCalls(1) : WebResearch(res, bad)
    \/ \E resp \in SumResponses, bad \in BadCalls(2) : SummarizeSources(resp, bad)
    \/ \E resp \in ReflResponses, bad \in BadCalls(3) : ReflectOnSummary(resp, bad)
    \/ \E bad \in BadCalls(1) : RouteResearch(bad)
    \/ \E bad \in BadCalls(1) : FinalizeSummary(bad)

Spec == Init /\ [][Next]_vars

----------------------------------------------------------------------------
(* The text normalizer on its own: what every stage does with the content  *)
(* of a model answer, _strip_thinking_tokens statement by statement and    *)
(* then _normalize_latex, and the same again on the cleaned text           *)

\* what a model answer is made of
Pieces == { StartMarker, EndMarker, <<"x">>, <<" ">>, Backtick,
            <<"\\", "[">>, <<"\\", "]">>, <<"\\", "(">>, <<"\\", ")">> }

\* the texts of n pieces
RECURSIVE TextsOf(_)
TextsOf(n) ==
    IF n = 0 THEN { <<>> }
    ELSE { p \o t : p \in Pieces, t \in TextsOf(n - 1) }

\* result.content of a model answer
Contents == UNION { TextsOf(n) : n \in 0..MaxPieces }

\* thoughts = "" and the parameter text at the entry of _strip_thinking_tokens
StripEntry(text, pass, first) ==
    [pc |-> "strip", input |-> text, thoughts |-> <<>>, text |-> text,
     iters |-> 0, pass |-> pass, first |-> first]

InitText ==
    /\ \E text \in Contents : tx = StripEntry(text, 1, <<>>)
    /\ \E topic \in Topics : state = NewState(topic)
    /\ node = "generate_query"
    /\ notify = FALSE
    /\ events = <<>>
    /\ outcome = "running"
    /\ error = ""
    /\ report = <<>>
    /\ nodeLog = <<>>
    /\ searchLog = <<>>
    /\ modelLog = <<>>
    /\ irregular = 0
    /\ runs = <<>>
    /\ shared = <<>>
    /\ app = <<>>
    /\ thinking = <<>>

Pipeline == <<state, node, notify, events, outcome, error, report, nodeLog,
              searchLog, modelLog, irregular, runs, shared, app, thinking>>

\* the loop condition holds: one run of the loop body
StripIterate ==
    /\ tx.pc = "strip" /\ StripCond(tx.text)
    /\ tx.iters < MaxStripIters
    /\ LET n == StripBody([thoughts |-> tx.thoughts, text |-> tx.text])
       IN tx' = [tx EXCEPT !.thoughts = n.thoughts, !.text = n.text,
                           !.iters = @ + 1]
    /\ UNCHANGED Pipeline

\* the loop condition fails: return thoughts.strip(), text.strip()
StripReturn ==
    /\ tx.pc = "strip" /\ ~StripCond(tx.text)
    /\ tx' = [tx EXCEPT !.pc = "latex", !.thoughts = PyStrip(@),
                        !.text = PyStrip(@)]
    /\ UNCHANGED Pipeline

\* text = _normalize_latex(text)
Normalize ==
    /\ tx.pc = "latex"
    /\ tx' = [tx EXCEPT !.pc = "done", !.text = NormalizeLatex(@)]
    /\ UNCHANGED Pipeline

\* the cleaned text is normalized once more
Renormalize ==
    /\ tx.pc = "done" /\ tx.pass = 1
    /\ tx' = StripEntry(tx.text, 2, tx.text)
    /\ UNCHANGED Pipeline

NextText == StripIterate \/ StripReturn \/ Normalize \/ Renormalize

SpecText == InitText /\ [][NextText]_vars

----------------------------------------------------------------------------
(* Two runs of run_deep_research in flight together.  A node of a run is   *)
(* left at every await: the call of the model or the search, and each call *)
(* of the notifier; the other run may take any number of steps there.      *)

RunIds == {1, 2}

\* the images list as a module-level variable that every run appends to
SharedFieldsImages == {"images"}

\* The fields of the research state that live at module level.  The only
\* module-level objects are the model client and the compiled pattern, and
\* no node assigns to them; every field is held in the SummaryState that
\* run_deep_research creates for the run.
SharedFields == {}

RunTopic(r) == IF r = 1 THEN <<"remote work">> ELSE <<"solar power">>

\* what the collaborators of a run answer, by round
Scripts == {"usual", "fallback", "search fails"}

\* the answer of the model to the prompt of node name in a round
ModelAnswerOf(script, name, round) ==
    CASE name = "generate_query" -> UsualQuery
      [] name = "summarize_sources" ->
            IF script = "fallback" /\ round = 2
            THEN Answer(Think(<<"nothing">>)) ELSE UsualSummary
      [] OTHER ->
            IF script = "fallback" /\ round = 2
            THEN Answer(<<"not structured">>) ELSE UsualReflection

\* the answer of the search to run r in a round
SearchAnswerOf(r, script, round) ==
    IF script = "search fails" /\ round = 3
    THEN [ok |-> FALSE, results |-> <<>>, images |-> <<>>]
    ELSE [ok |-> TRUE,
          results |-> IF r = 1 THEN <<ResultA, ResultB, ResultA2>>
                      ELSE <<ResultB, ResultA>>,
          images |-> IF script = "fallback" /\ round = 3 THEN <<>>
                     ELSE <<10 * r + round>>]

\* what the collaborator called by node name answers to run r
AnswerFor(r, script, name, st) ==
    IF name = "web_research"
    THEN SearchAnswerOf(r, script, st.research_loop_count + 1)
    ELSE ModelAnswerOf(script, name, st.research_loop_count)

\* the nodes that await a collaborator before their first notifier call
Calling == {"generate_query", "web_research", "summarize_sources",
            "reflect_on_summary"}

\* one execution of node name on the state st it was handed
Execute(name, st, answer) ==
    CASE name = "generate_query" -> GenerateQueryResult(st, TRUE, answer, {})
      [] name = "web_research" -> WebResearchResult(st, TRUE, answer, {})
      [] name = "summarize_sources" -> SummarizeSourcesResult(st, TRUE, answer, {})
      [] name = "reflect_on_summary" -> ReflectOnSummaryResult(st, TRUE, answer, {})
      [] name = "route_research" -> RouteResearchResult(st, TRUE, {})
      [] OTHER -> FinalizeSummaryResult(st, TRUE, {})

\* the edge leaving node name
NextNode(name, st) ==
    CASE name = "generate_query" -> "web_research"
      [] name = "web_research" -> "summarize_sources"
      [] name = "summarize_sources" -> "reflect_on_summary"
      [] name = "reflect_on_summary" -> "route_research"
      [] name = "route_research" -> RouteDecision(st)
      [] OTHER -> "END"

\* run_deep_research(topic, notify) before the graph takes its first step
NewRun(r, script) ==
    [script |-> script, state |-> NewState(RunTopic(r)), node |-> "generate_query",
     phase |-> "ready", entry |-> NewState(RunTopic(r)), result |-> Ok(<<>>, <<>>),
     pend |-> <<>>, events |-> <<>>, outcome |-> "running", error |-> "",
     report |-> <<>>, done |-> 0]

\* the state a node of run r is handed: its own fields, and the shared ones
View(r) ==
    [f \in DOMAIN runs[r].state |->
        IF f \in SharedFields THEN shared[f] ELSE runs[r].state[f]]

InitTwoRuns ==
    /\ \E sc \in [RunIds -> Scripts] : runs = [r \in RunIds |-> NewRun(r, sc[r])]
    /\ shared = [f \in SharedFields |-> NewState(<<>>)[f]]
    /\ tx = NoText
    /\ app = <<>>
    /\ thinking = <<>>
    /\ \E topic \in Topics : state = NewState(topic)
    /\ node = "generate_query"
    /\ notify = FALSE
    /\ events = <<>>
    /\ outcome = "running"
    /\ error = ""
    /\ report = <<>>
    /\ nodeLog = <<>>
    /\ searchLog = <<>>
    /\ modelLog = <<>>
    /\ irregular = 0

Single == <<state, node, notify, events, outcome, error, report, nodeLog,
            searchLog, modelLog, irregular, tx, app, thinking>>

\* the graph hands the node of run r the state and the node runs up to its
\* first await: the call of its collaborator
Call(r) ==
    /\ runs[r].outcome = "running" /\ runs[r].phase = "ready"
    /\ runs[r].node \in Calling
    /\ runs' = [runs EXCEPT ![r].phase = "awaiting", ![r].entry = View(r)]
    /\ UNCHANGED <<shared, Single>>

\* the collaborator answers; the node runs on to its first notifier call
Answered(r) ==
    /\ runs[r].outcome = "running" /\ runs[r].phase = "awaiting"
    /\ LET st == runs[r].entry
           res == Execute(runs[r].node, st,
                          AnswerFor(r, runs[r].script, runs[r].node, st))
       IN runs' = [runs EXCEPT ![r].phase = "notifying", ![r].result = res,
                               ![r].pend = res.ev]
    /\ UNCHANGED <<shared, Single>>

\* a node without collaborator is handed the state and runs to its first
\* notifier call
Enter(r) ==
    /\ runs[r].outcome = "running" /\ runs[r].phase = "ready"
    /\ runs[r].node \in {"route_research", "finalize_summary"}
    /\ LET st == View(r)
           res == Execute(runs[r].node, st, <<>>)
       IN runs' = [runs EXCEPT ![r].phase = "notifying", ![r].entry = st,
                               ![r].result = res, ![r].pend = res.ev]
    /\ UNCHANGED <<shared, Single>>

\* await notify(name, payload)
Notified(r) ==
    /\ runs[r].outcome = "running" /\ runs[r].phase = "notifying"
    /\ runs[r].pend # <<>>
    /\ runs' = [runs EXCEPT ![r].events = Append(@, Head(runs[r].pend)),
                            ![r].pend = Tail(@)]
    /\ UNCHANGED <<shared, Single>>

\* the node returns (or raises) and the graph merges what it returned
Returned(r) ==
    /\ runs[r].outcome = "running" /\ runs[r].phase = "notifying"
    /\ runs[r].pend = <<>>
    /\ LET res == runs[r].result
           merged == ApplyUpdate(View(r), res.upd)
           name == runs[r].node
       IN IF res.status = "ok"
          THEN /\ runs' = [runs EXCEPT
                     ![r].state = merged,
                     ![r].node = NextNode(name, runs[r].entry),
                     ![r].phase = "ready",
                     ![r].done = @ + 1,
                     ![r].outcome = IF name = "finalize_summary"
                                    THEN "returned" ELSE "running",
                     ![r].report = IF name = "finalize_summary"
                                   THEN merged.running_summary ELSE <<>>]
               /\ shared' = [f \in SharedFields |-> merged[f]]
          ELSE /\ runs' = [runs EXCEPT ![r].outcome = res.status,
                                       ![r].error = res.err,
                                       ![r].done = @ + 1]
               /\ UNCHANGED shared
    /\ UNCHANGED Single

NextTwoRuns ==
    \/ \E r \in RunIds : Call(r)
    \/ \E r \in RunIds : Answered(r)
    \/ \E r \in RunIds : Enter(r)
    \/ \E r \in RunIds : Notified(r)
    \/ \E r \in RunIds : Returned(r)

SpecTwoRuns == InitTwoRuns /\ [][NextTwoRuns]_vars

\* what the caller of a run can see of it
Visible(c) ==
    [state |-> c.state, node |-> c.node, events |-> c.events,
     outcome |-> c.outcome, error |-> c.error, report |-> c.report]

\* a run c after the node execution that returned res, after being its state
\* with the update merged
SoloStepOf(c, res, after) ==
    IF res.status = "ok"
    THEN [state |-> after, node |-> NextNode(c.node, c.state),
          events |-> c.events \o res.ev,
          outcome |-> IF c.node = "finalize_summary"
                      THEN "returned" ELSE "running",
          error |-> "",
          report |-> IF c.node = "finalize_summary"
                     THEN after.running_summary ELSE <<>>]
    ELSE [c EXCEPT !.events = @ \o res.ev, !.outcome = res.status,
                   !.error = res.err]

\* langgraph merges the update a node returns into the state
SoloStepRes(c, res) == SoloStepOf(c, res, ApplyUpdate(c.state, res.upd))

\* one node execution of run r when it runs alone
SoloStep(r, script, c) ==
    IF c.outcome # "running" THEN c
    ELSE SoloStepRes(c, Execute(c.node, c.state, AnswerFor(r, script, c.node, c.state)))

\* run r after k node executions when it runs alone
RECURSIVE SoloAfter(_, _, _)
SoloAfter(r, script, k) ==
    IF k = 0 THEN Visible(NewRun(r, script))
    ELSE SoloStep(r, script, SoloAfter(r, script, k - 1))

----------------------------------------------------------------------------
(* The chat session: set_mode and on_message of app.py, with the analytics  *)
(* command of analytics_handler.py and the helper of insight_generator.py.  *)
(* A handler is followed from its call to its return; h is what it has done *)
(* so far: [sess, shown, branches, calls, run].                             *)

\* messages handled in one session
MaxMessages == 2

\* str.lower() on the atoms user inputs and payloads are made of
Lower(a) ==
    CASE a = "WEB" -> "web"
      [] a = "Work" -> "work"
      [] a = "DEEP_RESEARCH" -> "deep_research"
      [] a = "/RESEARCH " -> "/research "
      [] a = "/Analytics" -> "/analytics"
      [] OTHER -> a

\* the atoms that begin with a slash
SlashAtoms == {"/analytics", "/Analytics", "/research ", "/RESEARCH ", "/research"}

\* SetModeValue without the membership test
SetModeValueUnchecked(payload) ==
    Lower(IF payload = "missing" THEN "work" ELSE payload)

\* set_mode: the value stored for a payload ("missing": no key "mode")
SetModeValue(payload) ==
    LET value == Lower(IF payload = "missing" THEN "work" ELSE payload)
    IN IF value \notin {"work", "web"} THEN "null1" ELSE value

\* the session store at on_chat_start
NewSession(provider) ==
    [mode |-> "unset", analytics_mode |-> FALSE, provider |-> provider,
     history |-> <<>>]

NewHandler(sess) ==
    [sess |-> sess, shown |-> <<>>, branches |-> <<>>, calls |-> <<>>,
     run |-> [outcome |-> "none", error |-> "", report |-> <<>>]]

\* await cl.Message(...).send()
Show(h, msg) == [h EXCEPT !.shown = Append(@, msg)]

Branch(h, name) == [h EXCEPT !.branches = Append(@, name)]

SetAnalyticsMode(h, value) == [h EXCEPT !.sess.analytics_mode = value]

\* append_message(role, content, elements) of utils.utils
AppendMessage(h, role, content) ==
    [h EXCEPT !.sess.history = Append(@, [role |-> role, content |-> content])]

\* the f-string of _get_chart_recommendations names query, which is neither a
\* parameter, a local nor a global: building the prompt raises NameError
PromptBuilt == FALSE

\* AnalyticsHandler._get_chart_recommendations: the outer except returns the
\* default charts
GetChartRecommendations(h, agent) ==
    LET original_mode == h.sess.analytics_mode
        after == IF ~PromptBuilt \/ h.sess.provider # "foundry" THEN original_mode
                 ELSE IF agent = "raises" THEN TRUE
                 ELSE original_mode
    IN [SetAnalyticsMode(h, after) EXCEPT
           !.calls = Append(@, [helper |-> "_get_chart_recommendations",
                                before |-> original_mode, after |-> after,
                                agent |-> IF PromptBuilt THEN agent ELSE "not called"])]

\* get_llm_response of insight_generator.py
GetLlmResponse(h, agent) ==
    LET analytics_mode == h.sess.analytics_mode
        after == IF h.sess.provider # "foundry" THEN analytics_mode
                 ELSE IF agent = "raises" THEN TRUE
                 ELSE analytics_mode
    IN [SetAnalyticsMode(h, after) EXCEPT
           !.calls = Append(@, [helper |-> "get_llm_response",
                                before |-> analytics_mode, after |-> after,
                                agent |-> IF h.sess.provider = "foundry"
                                          THEN agent ELSE "not called"])]

\* AnalyticsHandler.process_analytics_request: [h, error]
ProcessAnalyticsRequest(h, data, agent) ==
    IF data # "valid" THEN [h |-> h, error |-> "No valid data provided"]
    ELSE [h |-> GetLlmResponse(GetChartRecommendations(h, agent), agent),
          error |-> ""]

\* AnalyticsHandler.display_analytics
DisplayAnalytics(h, err) ==
    IF err = "" THEN Show(Show(h, <<"charts">>), <<"insights">>)
    ELSE Show(h, <<"analytics error result">>)

Invitation == <<"You can ask follow-up questions about this data">>

\* handle_analytics_command(message_content, elements); data is what the
\* elements hold: "none", "valid", or "empty" (a file without usable rows)
HandleAnalyticsCommand(h0, data, w) ==
    LET h1 == SetAnalyticsMode(Branch(h0, "analytics"), TRUE)
        failed == SetAnalyticsMode(Show(h1, <<"Error processing analytics">>), FALSE)
    IN IF data = "none"
       THEN SetAnalyticsMode(Show(h1, <<"Please attach a CSV or Excel file">>), FALSE)
       ELSE IF ~w.append THEN failed
       ELSE LET h2 == Show(AppendMessage(h1, "user", <<"[Analytics Request]">>),
                           <<"Analyzing your data">>)
                p == ProcessAnalyticsRequest(h2, data, w.agent)
                h3 == AppendMessage(DisplayAnalytics(p.h, p.error),
                                    "assistant", <<"Generated charts">>)
            IN Show(h3, Invitation)

\* what the user types, stripped: the command atom first
Inputs ==
    { <<"/analytics", " show sales trends">>, <<"/Analytics">>,
      <<"/research ", "remote work">>, <<"/RESEARCH ", "remote work">>,
      <<"/research">>, <<"how did sales develop?">> }

\* user_input.lower().startswith(prefix), prefix a command atom
StartsWith(input, prefix) == input # <<>> /\ Lower(input[1]) = prefix

\* user_input.startswith("/")
StartsWithSlash(input) == input # <<>> /\ input[1] \in SlashAtoms

\* OutcomeMessages announcing completion whatever the run did
OutcomeMessagesAlways(h, run) ==
    LET h1 == IF run.outcome = "raised"
              THEN Show(h, <<"Research error: ", run.error>>) ELSE h
    IN Show(h1, <<"Research complete">>)

\* the try around run_deep_research in on_message
OutcomeMessages(h, run) ==
    IF run.outcome = "raised" THEN Show(h, <<"Research error: ", run.error>>)
    ELSE IF run.report # <<>> THEN Show(h, <<"Research complete">>)
    ELSE h

\* run_deep_research on the topic of the request, by what its collaborators
\* answer
ResearchRuns == [script \in Scripts |-> SoloAfter(1, script, 18)]

\* await run_deep_research(topic, notify) and what on_message shows of it
ResearchAwaited(h1, topic, run) ==
    OutcomeMessages([h1 EXCEPT !.run = [outcome |-> run.outcome,
                                        error |-> run.error,
                                        report |-> run.report, topic |-> topic,
                                        events |-> Len(run.events)]],
                    run)

\* the deep research branch of on_message: the run is the graph of
\* setup_graph started on the topic, its collaborators answering by w.script
ResearchBranch(h0, input, is_research_cmd, w) ==
    LET topic == IF is_research_cmd THEN PyStrip(PyTail(input, 1)) ELSE input
        h1 == Show(Show(Branch(h0, "research"), <<"(thinking)">>),
                  <<"Starting research">>)
    IN ResearchAwaited(h1, topic, ResearchRuns[w.script])

\* the normal chat path of on_message
ChatBranch(h0, input, w) ==
    LET h1 == Branch(h0, "chat")
        failed == Show(h1, <<"An error occurred">>)
        h2 == AppendMessage(h1, "user", input)
    IN IF ~w.append \/ w.agent = "raises" THEN
            IF w.append THEN Show(h2, <<"An error occurred">>) ELSE failed
       ELSE IF h2.sess.provider = "foundry"
            THEN IF w.agent = "empty"
                 THEN Show(h2, <<"(No response received from the agent)">>)
                 ELSE AppendMessage(h2, "assistant", <<"response">>)
       ELSE Show(AppendMessage(h2, "assistant",
                               IF w.agent = "empty" THEN <<>> ELSE <<"response">>),
                 IF w.agent = "empty" THEN <<>> ELSE <<"response">>)

\* The analytics follow-up branch of on_message.  The call that assigned
\* response is commented out, so reading response raises NameError; the
\* except clause logs it and the handler goes on below the branch.
FollowUpBranch(h0, input, w) ==
    LET h1 == Branch(h0, "followup")
    IN [h |-> IF w.append THEN AppendMessage(h1, "user", <<"[Analytics Context]">> \o input)
              ELSE h1,
        returned |-> FALSE]

\* on_message(message): input is message.content.strip(), data what
\* message.elements hold, w what the collaborators do
OnMessageResult(sess, input, data, w) ==
    LET h0 == NewHandler(sess)
        mode == IF sess.mode = "unset" THEN "default" ELSE sess.mode
        analytics_mode == sess.analytics_mode
        is_research_cmd == StartsWith(input, "/research ")
    IN IF StartsWith(input, "/analytics") THEN HandleAnalyticsCommand(h0, data, w)
       ELSE LET f == IF analytics_mode /\ ~StartsWithSlash(input)
                     THEN FollowUpBranch(h0, input, w)
                     ELSE [h |-> h0, returned |-> FALSE]
            IN IF f.returned THEN f.h
               ELSE IF is_research_cmd \/ mode = "deep_research"
                    THEN ResearchBranch(f.h, input, is_research_cmd, w)
               ELSE ChatBranch(f.h, input, w)

\* what the collaborators of one handler do: append_message returns or
\* raises, the agent (or chat completion) answers, answers nothing or
\* raises, and the collaborators of a research run follow a script
Worlds ==
    [append : BOOLEAN, agent : {"ok", "empty", "raises"}, script : Scripts]

ModePayloads ==
    {"work", "web", "WEB", "Work", "deep_research", "DEEP_RESEARCH", "missing", "5"}

InitApp ==
    /\ \E provider \in {"foundry", "litellm"} :
          app = [sess |-> NewSession(provider), handled |-> 0,
                 last |-> [kind |-> "none"]]
    /\ thinking = <<>>
    /\ tx = NoText
    /\ runs = <<>>
    /\ shared = <<>>
    /\ \E topic \in Topics : state = NewState(topic)
    /\ node = "generate_query"
    /\ notify = FALSE
    /\ events = <<>>
    /\ outcome = "running"
    /\ error = ""
    /\ report = <<>>
    /\ nodeLog = <<>>
    /\ searchLog = <<>>
    /\ modelLog = <<>>
    /\ irregular = 0

NotApp == <<state, node, notify, events, outcome, error, report, nodeLog,
            searchLog, modelLog, irregular, tx, runs, shared, thinking>>

\* the action callback set_mode
SetMode(payload) ==
    /\ app.handled < MaxMessages
    /\ app' = [app EXCEPT !.sess.mode = SetModeValue(payload),
                          !.handled = @ + 1,
                          !.last = [kind |-> "set_mode", payload |-> payload]]
    /\ UNCHANGED NotApp

OnMessage(input, data, w) ==
    /\ app.handled < MaxMessages
    /\ \E h \in {OnMessageResult(app.sess, input, data, w)} :
          app' = [app EXCEPT !.sess = h.sess,
                             !.handled = @ + 1,
                             !.last = [kind |-> "message", input |-> input,
                                       data |-> data, w |-> w,
                                       entry |-> app.sess, shown |-> h.shown,
                                       branches |-> h.branches,
                                       calls |-> h.calls, run |-> h.run]]
    /\ UNCHANGED NotApp

\* process_analytics_request called without the chat command, as
\* analytics_example.py does
ProcessDirectly(data, agent) ==
    /\ app.handled < MaxMessages
    /\ \E p \in {ProcessAnalyticsRequest(NewHandler(app.sess), data, agent)} :
          app' = [app EXCEPT !.sess = p.h.sess,
                             !.handled = @ + 1,
                             !.last = [kind |-> "process", data |-> data,
                                       entry |-> app.sess, calls |-> p.h.calls]]
    /\ UNCHANGED NotApp

NextApp ==
    \/ \E payload \in ModePayloads : SetMode(payload)
    \/ \E input \in Inputs, data \in {"none", "valid", "empty"}, w \in Worlds :
          OnMessage(input, data, w)
    \/ \E data \in {"valid", "empty"}, agent \in {"ok", "raises"} :
          ProcessDirectly(data, agent)

SpecApp == InitApp /\ [][NextApp]_vars

----------------------------------------------------------------------------
(* The thinking cache of dynamic_thinking.py: calls of                      *)
(* cached_dynamic_thinking, left at the await of the generation, and calls  *)
(* of clear_thinking_cache in between.  The cache is the dict in insertion  *)
(* order: entries [key, at, by], at the number of the insertion and by the  *)
(* form of the query whose markdown is stored.                              *)

\* _cache_max_size
CacheMaxSize == 50

\* different queries asked for that were never asked before
MaxQueries == 3

\* calls of clear_thinking_cache
MaxClears == 1

\* calls of cached_dynamic_thinking awaiting their generation at a time
MaxPending == 2

\* query.lower().strip()[:100] of the query number n written in some form
CacheKey(query) == query.n

\* the ways a query is written that share a cache key: case, blanks around
\* it, what follows its first 100 characters
Forms == {"plain", " Padded Upper "}

\* generate_thinking_with_llm(query, provider): the markdown of the model,
\* or the fallback markdown; never empty
Markdown(query) == query.form

KeysOf(c) == { c[i].key : i \in DOMAIN c }

\* Evict removing the newest entry
EvictNewest(c) ==
    IF Len(c) > CacheMaxSize THEN SubSeq(c, 1, Len(c) - 1) ELSE c

\* del _thinking_cache[next(iter(_thinking_cache))] when the cache is too big
Evict(c) ==
    IF Len(c) > CacheMaxSize THEN Tail(c) ELSE c

\* _thinking_cache[cache_key] = markdown_content: a new key goes last, a key
\* already there keeps its place and gets the new value
Store(c, key, value, at) ==
    IF key \in KeysOf(c)
    THEN [i \in DOMAIN c |-> IF c[i].key = key THEN [c[i] EXCEPT !.by = value]
                             ELSE c[i]]
    ELSE Append(c, [key |-> key, at |-> at, by |-> value])

\* the queries that arrive: one never asked before, or again the query of
\* the oldest or of the newest entry, or the very first query
Queries ==
    LET c == thinking.cache
        known == {1} \cup (IF c = <<>> THEN {} ELSE {c[1].key, c[Len(c)].key})
    IN { [n |-> n, form |-> f] : n \in known, f \in Forms }
         \cup (IF thinking.asked < thinking.first + MaxQueries
               THEN { [n |-> thinking.asked + 1, form |-> "plain"] } ELSE {})

\* the cache after n calls, one after the other, with the queries 1 .. n
Filled(n) == [i \in 1..n |-> [key |-> i, at |-> i, by |-> "plain"]]

\* the cache is empty when the module is loaded; the runs that start from a
\* cache about to be full are the runs that go on after CacheMaxSize -
\* MaxPending such calls
WarmSizes == {0, CacheMaxSize - MaxPending}

InitCache ==
    /\ \E n \in WarmSizes :
         thinking = [cache |-> Filled(n), pending |-> {}, first |-> n,
                     asked |-> n, clock |-> n, clears |-> 0]
    /\ app = <<>>
    /\ tx = NoText
    /\ runs = <<>>
    /\ shared = <<>>
    /\ \E topic \in Topics : state = NewState(topic)
    /\ node = "generate_query"
    /\ notify = FALSE
    /\ events = <<>>
    /\ outcome = "running"
    /\ error = ""
    /\ report = <<>>
    /\ nodeLog = <<>>
    /\ searchLog = <<>>
    /\ modelLog = <<>>
    /\ irregular = 0

NotCache == <<state, node, notify, events, outcome, error, report, nodeLog,
              searchLog, modelLog, irregular, tx, runs, shared, app>>

\* cached_dynamic_thinking(query, provider, cache_enabled) up to its await:
\* a key in the cache is a hit and the call returns; otherwise the call
\* awaits generate_thinking_with_llm
Lookup(query, cache_enabled) ==
    /\ IF cache_enabled /\ CacheKey(query) \in KeysOf(thinking.cache)
       THEN thinking' = [thinking EXCEPT !.asked = IF query.n > @ THEN query.n ELSE @]
       ELSE /\ Cardinality(thinking.pending) < MaxPending
            /\ thinking' = [thinking EXCEPT
                   !.pending = @ \cup {[query |-> query, enabled |-> cache_enabled]},
                   !.asked = IF query.n > @ THEN query.n ELSE @]
    /\ UNCHANGED NotCache

\* the generation returns: the markdown is stored and the cache cut back
Generated(call) ==
    /\ call \in thinking.pending
    /\ LET markdown_content == Markdown(call.query)
           stored == Store(thinking.cache, CacheKey(call.query),
                           markdown_content, thinking.clock + 1)
       IN thinking' = [thinking EXCEPT
              !.pending = @ \ {call},
              !.cache = IF call.enabled /\ markdown_content # "" THEN Evict(stored)
                        ELSE @,
              !.clock = IF call.enabled /\ CacheKey(call.query) \notin KeysOf(thinking.cache)
                        THEN @ + 1 ELSE @]
    /\ UNCHANGED NotCache

\* clear_thinking_cache()
ClearThinkingCache ==
    /\ thinking.clears < MaxClears
    /\ thinking' = [thinking EXCEPT !.cache = <<>>, !.clears = @ + 1]
    /\ UNCHANGED NotCache

NextCache ==
    \/ \E query \in Queries, cache_enabled \in BOOLEAN : Lookup(query, cache_enabled)
    \/ \E call \in thinking.pending : Generated(call)
    \/ ClearThinkingCache

SpecCache == InitCache /\ [][NextCache]_vars

----------------------------------------------------------------------------
(* Properties *)

Last(seq) == seq[Len(seq)]

\* number of entries of log equal to x
Count(log, x) == Cardinality({ i \in DOMAIN log : log[i] = x })

\* the names of the events sent so far
EventNames == [i \in DOMAIN events |-> events[i].name]

\* the run ended with an exception or never returns
Failed == outcome \in {"raised", "hung"}

\* number of WebResearch executions that returned
CompletedRounds ==
    Count(nodeLog, "web_research")
      - (IF Failed /\ nodeLog # <<>> /\ Last(nodeLog) = "web_research" THEN 1 ELSE 0)

\* C1: when Finalize is about to execute or has executed, and hence in every
\* run that returned, WebResearch has executed exactly 4 times; it never
\* executes a fifth time.
C1_ExactlyFourRounds ==
    /\ Count(nodeLog, "web_research") <= 4
    /\ (node = "finalize_summary" \/ Count(nodeLog, "finalize_summary") > 0
          \/ outcome = "returned")
         => Count(nodeLog, "web_research") = 4

C1_Witness ==
    /\ outcome = "returned"
    /\ Count(nodeLog, "web_research") = 4
    /\ Last(nodeLog) = "finalize_summary"

\* C2: a routing step decides by loopCount alone (0..3: WebResearch, 4 or
\* more: Finalize), sends exactly one routing event that names this decision
\* and carries loopCount, and leaves every state field as it was.
C2_RoutingByLoopCount ==
    [][node = "route_research" =>
        LET n == state.research_loop_count
            decision == IF n \in {0, 1, 2, 3} THEN "continue" ELSE "finalize"
        IN /\ state' = state
           /\ outcome' = "running" =>
                node' = IF n \in {0, 1, 2, 3} THEN "web_research"
                        ELSE "finalize_summary"
           /\ notify =>
                /\ Len(events') = Len(events) + 1
                /\ SubSeq(events', 1, Len(events)) = events
                /\ Last(events').name = "routing"
                /\ Last(events').payload.decision = decision
                /\ Last(events').payload.loop_count = n
           /\ ~notify => events' = events]_vars

C2_Witness ==
    /\ node = "finalize_summary"
    /\ notify
    /\ Last(events).name = "routing"
    /\ Last(events).payload = [decision |-> "finalize", loop_count |-> 4]
    /\ Count(EventNames, "routing") = 4

\* C3: in every state, loopCount is the number of completed WebResearch
\* rounds, and searchResults and sourcesGathered hold that many elements.
C3_LoopCountIsRounds ==
    /\ state.research_loop_count = CompletedRounds
    /\ Len(state.web_research_results) = state.research_loop_count
    /\ Len(state.sources_gathered) = state.research_loop_count

C3_Witness ==
    /\ CompletedRounds = 4
    /\ state.research_loop_count = 4
    /\ Len(state.web_research_results) = 4
    /\ Len(state.sources_gathered) = 4

\* no call of the model, the search or the notifier has raised so far
NoCollaboratorError ==
    /\ \A i \in DOMAIN modelLog : modelLog[i].answer.ok
    /\ \A i \in DOMAIN searchLog : searchLog[i].ok
    /\ \A i \in DOMAIN events : ~events[i].raised

ParseErrors == {"JSONDecodeError", "TypeError", "KeyError"}

\* C4: while no call of a collaborator has raised, whatever the model
\* answered, the run goes on until Finalize has run, which ends it: the run
\* neither fails nor hangs, a stage is enabled as long as it has not
\* returned, and none is once it has.  (The one failure the specification
\* prescribes without a collaborator failing, an answer to the query prompt
\* that does not parse, is not held against the claim.)
C4_RunReachesFinalize ==
    /\ NoCollaboratorError /\ Failed =>
          Last(nodeLog) = "generate_query" /\ error \in ParseErrors
    /\ outcome = "running" => ENABLED Next
    /\ outcome = "returned" => Last(nodeLog) = "finalize_summary" /\ ~ENABLED Next

\* C5: with a notifier, a run that returned has sent exactly one finalize
\* event, as its last event; a run that failed has sent none.
C5_OneFinalizeEventLast ==
    notify =>
        /\ outcome = "returned" =>
              Count(EventNames, "finalize") = 1 /\ Last(events).name = "finalize"
        /\ Failed => Count(EventNames, "finalize") = 0

\* C6: a notifier call that raises does not abort the run: no run ends with
\* the notifier's exception.
C6_NotifierFailureSwallowed ==
    Failed => error # "NotifierError"

\* the text json.loads is given for the answer of a model call
ParsedText(call) == NormalizeLatex(StripThinkingTokens(call.answer.content).text)

\* C7: after a Reflect whose answer is not valid structured data, the
\* state's query is the templated query and its knowledgeGap the fixed
\* diagnostic string.
C7_ReflectFallbackPair ==
    (/\ outcome = "running" /\ node = "route_research"
     /\ ~JsonLoads(ParsedText(Last(modelLog))).ok)
        => /\ state.search_query = <<"Tell me more about ">> \o state.research_topic
           /\ state.knowledge_gap = <<"Unable to identify specific knowledge gap">>

\* GenerateQuery reached json.loads with a text that is no query object
QueryUnparseable ==
    /\ nodeLog # <<>>
    /\ modelLog[1].answer.ok
    /\ StripThinkingTokens(modelLog[1].answer.content).status = "ok"
    /\ notify => ~events[1].raised
    /\ LET j == JsonLoads(ParsedText(modelLog[1]))
       IN ~j.ok \/ ~j.value.isObject \/ ~({"query", "rationale"} \subseteq j.value.keys)

\* C8: when the answer to the query prompt cannot be parsed as a query
\* object, the run ends there with the parse error: one model call, no
\* generate_query event, no search, no other stage, no report.
C8_QueryParseErrorPropagates ==
    QueryUnparseable =>
        /\ outcome = "raised" /\ error \in ParseErrors
        /\ Len(modelLog) = 1
        /\ Count(EventNames, "generate_query") = 0
        /\ searchLog = <<>>
        /\ nodeLog = <<"generate_query">>
        /\ report = <<>>

C8_Witness ==
    /\ QueryUnparseable
    /\ notify
    /\ error = "JSONDecodeError"
    /\ EventNames = <<"thinking">>

\* C9: a search call that fails in round k is the last thing the run does:
\* it is the k-th and last search call, the run ends with the search error,
\* round k sent no web_research event, no stage ran after it, no finalize
\* event was sent and no report returned.
C9_SearchFailureAborts ==
    \A k \in DOMAIN searchLog :
        ~searchLog[k].ok =>
            /\ k = Len(searchLog)
            /\ outcome = "raised" /\ error = "SearchError"
            /\ Last(nodeLog) = "web_research"
            /\ Count(nodeLog, "web_research") = k
            /\ Count(EventNames, "web_research") = IF notify THEN k - 1 ELSE 0
            /\ Count(nodeLog, "finalize_summary") = 0
            /\ Count(EventNames, "finalize") = 0
            /\ report = <<>>
            /\ ~ENABLED Next

C9_Witness ==
    /\ notify
    /\ Len(searchLog) = 4
    /\ ~searchLog[4].ok
    /\ error = "SearchError"

\* the image URLs the searches of the run returned, in order
RECURSIVE Discovered(_)
Discovered(log) ==
    IF log = <<>> THEN <<>> ELSE Head(log).images \o Discovered(Tail(log))

\* C10: the finalize event carries at most two image URLs, the first two
\* the searches of the run returned.
C10_FinalizeFirstTwoImages ==
    \A i \in DOMAIN events :
        events[i].name = "finalize" =>
            /\ Len(events[i].payload.images) <= 2
            /\ events[i].payload.images = PySlice(Discovered(searchLog), 0, 2)

\* C11: the state's images are the image lists the searches of the completed
\* rounds returned, concatenated in round order: nothing repeated, removed
\* or reordered.
C11_ImagesAreDiscovered ==
    state.images = Discovered(SubSeq(searchLog, 1, CompletedRounds))

\* the node that may follow node a in a run
Follows(a, b) ==
    CASE a = "generate_query" -> b = "web_research"
      [] a = "web_research" -> b = "summarize_sources"
      [] a = "summarize_sources" -> b = "reflect_on_summary"
      [] a = "reflect_on_summary" -> b = "route_research"
      [] a = "route_research" -> b \in {"web_research", "finalize_summary"}
      [] OTHER -> FALSE

\* C12: the nodes of a run execute one after the other along the edges
\* GenerateQuery -> WebResearch -> Summarize -> Reflect -> (routing) ->
\* WebResearch or Finalize: GenerateQuery executes first and once, nothing
\* follows Finalize, and the node to run next is the one the last edge names.
C12_StagesInGraphOrder ==
    /\ nodeLog # <<>> => nodeLog[1] = "generate_query"
    /\ Count(nodeLog, "generate_query") <= 1
    /\ \A i \in 1..(Len(nodeLog) - 1) : Follows(nodeLog[i], nodeLog[i + 1])
    /\ outcome = "running" /\ nodeLog # <<>> => Follows(Last(nodeLog), node)
    /\ nodeLog = <<>> => node = "generate_query"

C12_Witness ==
    /\ outcome = "returned"
    /\ Len(nodeLog) = 18
    /\ Count(nodeLog, "summarize_sources") = 4
    /\ Count(nodeLog, "reflect_on_summary") = 4

\* the citation blocks of the successful searches, each followed by a newline
RECURSIVE CitationBlocks(_)
CitationBlocks(log) ==
    IF log = <<>> THEN <<>>
    ELSE (IF Head(log).ok THEN FormatSources(Head(log)) \o <<"\n">> ELSE <<>>)
         \o CitationBlocks(Tail(log))

\* the calls of the model made by node name
CallsOf(name) == SelectSeq(modelLog, LAMBDA c : c.node = name)

\* C13: the returned string is the report the finalize event carries: the
\* "## Summary" header, the summary of the last Summarize, the sources
\* header and the citation blocks of the 4 rounds in round order.
C13_ReportIsFinalizePayload ==
    outcome = "returned" =>
        /\ report = <<"## Summary\n">> \o ParsedText(Last(CallsOf("summarize_sources")))
                      \o <<"\n\n### Sources:\n">> \o CitationBlocks(searchLog)
        /\ Len(searchLog) = 4
        /\ Len(state.sources_gathered) = 4
        /\ notify => Last(events).name = "finalize"
                       /\ Last(events).payload.summary = report

C13_Witness ==
    /\ outcome = "returned"
    /\ notify
    /\ Last(events).payload.summary = report
    /\ \E i \in 1..4 : searchLog[i].results # <<>>
    /\ \E i \in 1..4 : searchLog[i].results = <<>>

\* C14: once the first Summarize has completed, runningSummary is not empty.
C14_SummaryNonEmptyAfterFirst ==
    (node = "reflect_on_summary" \/ Count(nodeLog, "reflect_on_summary") > 0)
        => state.running_summary # <<>>

\* the atoms of block that directly follow the atom tag
AtomsAfter(block, tag) ==
    LET idx == SelectSeq([i \in 1..Len(block) |-> i],
                         LAMBDA i : i > 1 /\ block[i - 1] = tag)
    IN [k \in 1..Len(idx) |-> block[idx[k]]]

\* the URLs of results in order, every URL at its first occurrence only
FirstSeenUrls(results) ==
    LET first == SelectSeq([i \in 1..Len(results) |-> i],
                    LAMBDA i : \A j \in 1..(i - 1) : results[j].url # results[i].url)
    IN [k \in 1..Len(first) |-> results[first[k]].url]

\* C18: in every completed round the context block appended to
\* web_research_results has one source entry per distinct URL of the search
\* response, in first-seen order, taken from the first result with that URL,
\* and the citation block appended to sources_gathered has one line per
\* distinct URL in the same order; for URLs [a, b, a] that is [a, b].
C18_DedupFirstSeenOrder ==
    \A i \in 1..Len(state.web_research_results) :
        LET results == searchLog[i].results
            ctx == state.web_research_results[i]
            cit == state.sources_gathered[i]
        IN /\ AtomsAfter(ctx, "\nURL: ") = FirstSeenUrls(results)
           /\ AtomsAfter(cit, "](") = FirstSeenUrls(results)
           /\ Len(AtomsAfter(<<"">> \o ctx, "Source: ")) = Len(FirstSeenUrls(results))
           /\ Len(AtomsAfter(<<"">> \o cit, "* [")) = Len(FirstSeenUrls(results))
           /\ (Len(results) = 3 /\ [k \in 1..3 |-> results[k].url] = <<"a", "b", "a">>)
                => /\ AtomsAfter(<<"">> \o ctx, "Source: ") = <<"Title A", "Title B">>
                   /\ AtomsAfter(<<"">> \o cit, "* [") = <<"Title A", "Title B">>

\* a completed round whose search returned results with URLs [a, b, a]
C18_Witness ==
    \E i \in 1..Len(state.web_research_results) :
        /\ Len(searchLog[i].results) = 3
        /\ [k \in 1..3 |-> searchLog[i].results[k].url] = <<"a", "b", "a">>
        /\ AtomsAfter(state.web_research_results[i], "\nURL: ") = <<"a", "b">>

\* the events of one round after the first query
RoundEvents ==
    <<"web_research", "thinking", "summarize", "thinking", "reflection", "routing">>

\* C19: when no notifier call fails, a run that returned has sent exactly
\* thinking, generate_query, four times the events of a round, and finalize.
C19_EventSequence ==
    (outcome = "returned" /\ notify /\ \A i \in DOMAIN events : ~events[i].raised)
        => EventNames = <<"thinking", "generate_query">> \o RoundEvents \o RoundEvents
                          \o RoundEvents \o RoundEvents \o <<"finalize">>

\* a returned run with a notifier that never failed, one of whose reflections
\* took the fallback
C19_Witness ==
    /\ outcome = "returned" /\ notify /\ \A i \in DOMAIN events : ~events[i].raised
    /\ Len(events) = 27
    /\ \E i \in DOMAIN events : /\ events[i].name = "reflection"
                                  /\ events[i].payload.knowledge_gap = FixedGap

\* this step is an execution of summarize_sources
SummarizeStep ==
    /\ Len(nodeLog') = Len(nodeLog) + 1
    /\ Last(nodeLog') = "summarize_sources"

\* C20: an execution of summarize_sources asks the model on the create path
\* exactly when running_summary is empty at its entry, feeds it the context
\* block of the latest search only, and when it returns running_summary is
\* the normalized answer alone.
C20_SummarizePath ==
    [][SummarizeStep =>
        LET call == Last(modelLog')
        IN /\ call.node = "summarize_sources"
           /\ call.prompt.path = "create" <=> state.running_summary = <<>>
           /\ call.prompt.path = "update" <=> state.running_summary # <<>>
           /\ call.prompt.existing = state.running_summary
           /\ call.prompt.context = Last(state.web_research_results)
           /\ call.prompt.context = DeduplicateAndFormatSources(Last(searchLog))
           /\ outcome' = "running" =>
                 /\ state'.running_summary = ParsedText(call)
                 /\ state'.web_research_results = state.web_research_results]_vars

\* a second Summarize that took the update path with a context block other
\* than the first round's and replaced a summary by a different text
C20_Witness ==
    /\ node = "reflect_on_summary" /\ outcome = "running"
    /\ Len(state.web_research_results) = 2
    /\ state.web_research_results[1] # state.web_research_results[2]
    /\ Last(modelLog).prompt.path = "update"
    /\ Last(modelLog).prompt.existing # state.running_summary
    /\ state.running_summary = ParsedText(Last(modelLog))

\* C16: normalizing a text that normalization returned gives the same text
\* back: the second pass (stripping, then delimiter rewriting) leaves the
\* cleaned text of the first pass unchanged.
C16_NormalizationIdempotent ==
    (tx.pc = "done" /\ tx.pass = 2) => tx.text = tx.first

\* number of places of text where pat occurs
Occurrences(text, pat) ==
    Cardinality({ i \in 0..(Len(text) - Len(pat)) :
                      SubSeq(text, i + 1, i + Len(pat)) = pat })

\* C17: when the input of _strip_thinking_tokens holds as many start markers
\* as end markers, the cleaned text it returns holds neither marker.
C17_BalancedLeavesNoMarker ==
    (/\ tx.pc = "latex" /\ tx.pass = 1
     /\ Occurrences(tx.input, StartMarker) = Occurrences(tx.input, EndMarker))
        => ~Contains(tx.text, StartMarker) /\ ~Contains(tx.text, EndMarker)

IsPrefix(a, b) == Len(a) <= Len(b) /\ a = SubSeq(b, 1, Len(a))

\* C15: whatever the interleaving of two runs at their awaits, each run is
\* where it would be alone with the same collaborator answers: between two
\* nodes its state, events, outcome and report are those of the solo run
\* after as many node executions; inside a node its state is still that one
\* and its events are on the way to those of the solo run after the node;
\* a run that returned has done its own 4 rounds.
C15_RunsIndependent ==
    \A r \in RunIds :
        LET me == runs[r]
            alone == SoloAfter(r, me.script, me.done)
        IN /\ me.phase = "ready" \/ me.outcome # "running"
                => Visible(me) = alone
           /\ me.phase # "ready" /\ me.outcome = "running"
                => /\ me.state = alone.state /\ me.node = alone.node
                   /\ me.entry = alone.state
                   /\ IsPrefix(alone.events, me.events)
                   /\ IsPrefix(me.events,
                               SoloStep(r, me.script, alone).events)
           /\ me.outcome = "returned"
                => /\ me.state.research_loop_count = 4
                   /\ Len(SelectSeq(me.events,
                                    LAMBDA e : e.name = "web_research")) = 4
                   /\ me.done = 18

\* both runs returned, their collaborators having answered differently, and
\* their reports differ
C15_Witness ==
    /\ runs # <<>>
    /\ runs[1].outcome = "returned" /\ runs[2].outcome = "returned"
    /\ runs[1].script = "usual" /\ runs[2].script = "fallback"
    /\ runs[1].report # runs[2].report
    /\ runs[1].state.images # runs[2].state.images

\* this step is an execution of web_research
WebResearchStep ==
    /\ Len(nodeLog') = Len(nodeLog) + 1
    /\ Last(nodeLog') = "web_research"

\* C21: an execution of web_research issues exactly one search call, and
\* when it returns the state has exactly one more context block, one more
\* citation block and a loop count higher by 1 (an execution that raises
\* leaves the state as it was); a step of any other stage issues no search
\* and leaves research_loop_count, web_research_results, sources_gathered
\* and images as they were.
C21_WebResearchFrame ==
    [][/\ WebResearchStep =>
            /\ Len(searchLog') = Len(searchLog) + 1
            /\ SubSeq(searchLog', 1, Len(searchLog)) = searchLog
            /\ outcome' = "running" =>
                 /\ Len(state'.web_research_results)
                        = Len(state.web_research_results) + 1
                 /\ SubSeq(state'.web_research_results, 1,
                           Len(state.web_research_results))
                        = state.web_research_results
                 /\ Len(state'.sources_gathered) = Len(state.sources_gathered) + 1
                 /\ SubSeq(state'.sources_gathered, 1, Len(state.sources_gathered))
                        = state.sources_gathered
                 /\ state'.research_loop_count = state.research_loop_count + 1
            /\ outcome' # "running" => state' = state
       /\ ~WebResearchStep =>
            /\ searchLog' = searchLog
            /\ state'.research_loop_count = state.research_loop_count
            /\ state'.web_research_results = state.web_research_results
            /\ state'.sources_gathered = state.sources_gathered
            /\ state'.images = state.images]_vars

\* the fourth web_research returned, and every other stage has run since
C21_Witness ==
    /\ outcome = "returned"
    /\ Len(searchLog) = 4 /\ Len(state.web_research_results) = 4
    /\ Len(state.sources_gathered) = 4 /\ state.research_loop_count = 4

\* the query an answer to the reflection prompt asks for
ReflectQuery(call) ==
    LET j == JsonLoads(ParsedText(call))
        q == JsonGet(j.value, "follow_up_query", None)
    IN IF j.ok /\ j.value.isObject /\ Truthy(q) THEN q
       ELSE <<"Tell me more about ">> \o state.research_topic

\* C22: the first search is sent the query of the answer to the query
\* prompt; the search of round k >= 2 is sent what the reflection of round
\* k - 1 wrote: the follow-up query of its answer, or the templated query
\* (always the former when it parsed and no notifier call failed).
C22_QueryOfPreviousStage ==
    \A k \in 1..Len(searchLog) :
        IF k = 1
        THEN searchLog[1].query = JsonLoads(ParsedText(modelLog[1])).value.query
        ELSE LET call == CallsOf("reflect_on_summary")[k - 1]
             IN /\ searchLog[k].query
                      \in {ReflectQuery(call),
                           <<"Tell me more about ">> \o state.research_topic}
                /\ (\A i \in DOMAIN events : ~events[i].raised)
                      => searchLog[k].query = ReflectQuery(call)

\* the searches of a run were sent three different queries: the first
\* query, the templated query after a reflection without follow-up query,
\* and then the follow-up query of the reflection after that
C22_Witness ==
    /\ Len(searchLog) = 4
    /\ searchLog[1].query = <<"first query">>
    /\ searchLog[2].query = <<"Tell me more about ">> \o state.research_topic
    /\ searchLog[3].query = <<"follow-up query">>

\* C23: whenever the loop of _strip_thinking_tokens is about to run its
\* body, the body leaves a text shorter than the one it found.
C23_StripShortens ==
    (tx.pc = "strip" /\ StripCond(tx.text))
        => Len(StripBody([thoughts |-> tx.thoughts, text |-> tx.text]).text)
               < Len(tx.text)

\* this step is an execution of reflect_on_summary that returned
ReflectReturned ==
    /\ Len(nodeLog') = Len(nodeLog) + 1
    /\ Last(nodeLog') = "reflect_on_summary"
    /\ outcome' = "running"

\* C24: when an execution of reflect_on_summary returns, its last reflection
\* event carries the search query and the knowledge gap the state holds
\* after it.
C24_ReflectionEventIsState ==
    [][(ReflectReturned /\ notify) =>
          /\ Last(events').name = "reflection"
          /\ Last(events').payload.query = state'.search_query
          /\ Last(events').payload.knowledge_gap = state'.knowledge_gap]_vars

\* the last handler was on_message on a research request
ResearchHandled ==
    /\ app.last.kind = "message"
    /\ Count(app.last.branches, "research") > 0

\* the messages about the outcome of the run that on_message showed
OutcomeShown ==
    SelectSeq(app.last.shown,
              LAMBDA m : m[1] \in {"Research error: ", "Research complete"})

\* C25: on_message shows one message about the outcome of a research run,
\* after the two boxes: the error message carrying the exception of the
\* failing stage when the run raised, the completion message when it
\* returned its report.
C25_OneOutcomeMessage ==
    ResearchHandled =>
        LET run == app.last.run
        IN /\ run.outcome \in {"raised", "returned"}
           /\ Len(OutcomeShown) = 1 /\ Last(app.last.shown) = OutcomeShown[1]
           /\ Len(app.last.shown) = 3
           /\ run.outcome = "raised" =>
                /\ OutcomeShown[1] = <<"Research error: ", run.error>>
                /\ run.error = SearchFailed(NewState(run.topic)).err
                /\ app.last.w.script = "search fails"
           /\ run.outcome = "returned" =>
                /\ OutcomeShown[1] = <<"Research complete">>
                /\ run.report # <<>>
                /\ app.last.w.script # "search fails"

\* a research request whose run raised in the search of round 3
C25_Witness ==
    /\ app # <<>>
    /\ ResearchHandled
    /\ app.last.run.outcome = "raised"
    /\ app.last.shown[3] = <<"Research error: ", "SearchError">>

\* the last message came in analytics mode and is no command
FollowUpHandled ==
    /\ app.last.kind = "message"
    /\ app.last.entry.analytics_mode
    /\ ~StartsWithSlash(app.last.input)

\* the turns on_message appended to the history for the last message
TurnsAppended ==
    SubSeq(app.sess.history, Len(app.last.entry.history) + 1, Len(app.sess.history))

\* C26: after an analytics command on attached data that did not succeed
\* (append_message raised, or process_analytics_request returned an error
\* result) analytics_mode is False and the invitation to follow-up questions
\* was not shown.
C26_AnalyticsModeOffOnError ==
    (/\ app.last.kind = "message"
     /\ StartsWith(app.last.input, "/analytics")
     /\ \E i \in DOMAIN app.last.shown :
            app.last.shown[i] \in {<<"Error processing analytics">>,
                                   <<"analytics error result">>})
        => /\ ~app.sess.analytics_mode
           /\ \A i \in DOMAIN app.last.shown : app.last.shown[i] # Invitation

\* C27: a message that is no command, sent in analytics mode, is handled by
\* the follow-up branch alone, and one user turn is appended for it.
C27_FollowUpBranchAlone ==
    FollowUpHandled =>
        /\ app.last.branches = <<"followup">>
        /\ Len(SelectSeq(TurnsAppended, LAMBDA t : t.role = "user")) = 1

C30_HelpersRestoreMode ==
    app.last.kind \in {"message", "process"} =>
        \A i \in DOMAIN app.last.calls :
            app.last.calls[i].after = app.last.calls[i].before

\* the calls whose generation returns in this step
Returning == thinking.pending \ thinking'.pending

\* the places of the old cache whose key the new cache no longer holds
Gone == { i \in DOMAIN thinking.cache :
            thinking.cache[i].key \notin KeysOf(thinking'.cache) }

\* C28: after any sequence and interleaving of calls of
\* cached_dynamic_thinking and clear_thinking_cache the thinking cache holds
\* at most 50 entries, and when the insertion of a new key finds 50 entries,
\* the new key is stored and the one entry removed is the entry that was
\* inserted earliest among those present.
C28_CacheBoundedOldestEvicted ==
    [][ /\ Len(thinking'.cache) <= CacheMaxSize
        /\ \A call \in Returning :
             ( /\ call.enabled
               /\ CacheKey(call.query) \notin KeysOf(thinking.cache)
               /\ Len(thinking.cache) = CacheMaxSize )
             => /\ CacheKey(call.query) \in KeysOf(thinking'.cache)
                /\ Cardinality(Gone) = 1
                /\ \A i \in Gone : \A k \in DOMAIN thinking.cache :
                     thinking.cache[i].at <= thinking.cache[k].at ]_vars

\* a full cache that has lost an entry to an insertion, holding a query
\* that was asked after its neighbour and stored before it
C28_Witness ==
    /\ thinking # <<>>
    /\ thinking.clears = 0
    /\ Len(thinking.cache) = CacheMaxSize
    /\ thinking.clock > CacheMaxSize
    /\ \E i \in DOMAIN thinking.cache :
         /\ i > 1
         /\ thinking.cache[i].key # 1
         /\ thinking.cache[i].key < thinking.cache[i-1].key

============================================================================
